---- MODULE Spec2Model ----
(***************************************************************************)
(* A model of src/BtcAddresses.js: the BIP39 mnemonic codec, the BIP32     *)
(* private-key derivation chain and the Base58 address encoder.            *)
(*                                                                         *)
(* JavaScript values are represented as follows.                           *)
(*   Buffer / byte array : a sequence of numbers in 0..255                 *)
(*   binary string       : a sequence of the digits 0 and 1                *)
(*   text (mnemonic)     : a sequence of one-character strings             *)
(*   array of words      : a sequence of texts                             *)
(*   wordlist            : a function from 0..2047 to texts (JS arrays are *)
(*                         indexed from 0)                                 *)
(*   BigInt              : a sequence of base-256 digits, most significant *)
(*                         first, without leading zero digits (0n is <<>>) *)
(*   hex string          : a sequence of hex digit values 0..15            *)
(*   a call's outcome    : a record saying whether it threw, and what      *)
(***************************************************************************)
EXTENDS Integers, Sequences, FiniteSets, TLC

VARIABLES
    hashKey,    \* selects the digest function that stands for SHA-256
    wl,         \* which wordlist the caller passes: 0 default, 1 alternate
    op,         \* codec: the function called last, "none" before any call
    strength,   \* codec: generateMnemonic's argument
    entropy,    \* codec: the bytes given to entropyToMnemonic / drawn by generate
    text,       \* codec: the mnemonic text passed in or returned
    chained,    \* codec: text is the output of the preceding encode call
    thrown,     \* codec: [site, name, message] of the exception, or NoThrow
    outBytes,   \* codec: the Buffer mnemonicToEntropy returned
    valid,      \* codec: the boolean validateMnemonic returned
    bop,        \* base58: "none", "encode_b58" or "privateKeyToAddress"
    payload,    \* base58: the bytes to encode
    b58,        \* base58: outcome of encode_b58
    hpc,        \* derivation: "idle", "held" (a caller holds a key), "loop"
                \*   (inside derivePath), "done" (derivePath returned), "failed"
    seed,       \* derivation: the seed passed in
    path,       \* derivation: derivePath's path argument, "" outside derivePath
    current,    \* derivation: the ExtendedKey held (derivePath's `current`)
    loopI,      \* derivation: deriveChild calls that returned (derivePath's i)
    step,       \* derivation: index and hardened flag of the last deriveChild call
    parentKey,  \* derivation: the key that call was given as parent
    lastI,      \* derivation: the HMAC digest I of the last call
    herr,       \* derivation: the exception surfaced, or NoThrow
    ret         \* derivation: what derivePath returned: the private scalar alone

codecVars == <<hashKey, wl, op, strength, entropy, text, chained, thrown,
               outBytes, valid>>
b58Vars   == <<bop, payload, b58>>
hdVars    == <<hpc, seed, path, current, loopI, step, parentKey, lastI, herr, ret>>
vars      == <<codecVars, b58Vars, hdVars>>

----------------------------------------------------------------------------
(* Outcomes of a call.                                                     *)

NoThrow == [site |-> "", name |-> "", message |-> ""]

Threw(site, name, message) ==
    [threw |-> TRUE, err |-> [site |-> site, name |-> name, message |-> message],
     value |-> <<>>]

Returned(v) == [threw |-> FALSE, err |-> NoThrow, value |-> v]

----------------------------------------------------------------------------
(* Generic string and array helpers of the JavaScript runtime.             *)

\* s.slice(a, b) on 0-based positions, b exclusive, both clamped.
Slice(s, a, b) ==
    LET lo == IF a > Len(s) THEN Len(s) ELSE a
        hi == IF b > Len(s) THEN Len(s) ELSE b
    IN  IF hi <= lo THEN <<>> ELSE SubSeq(s, lo + 1, hi)

\* s.padStart(n, c)
PadStart(s, n, c) ==
    IF Len(s) >= n THEN s ELSE [i \in 1..(n - Len(s)) |-> c] \o s

RECURSIVE ToStringRadix(_, _)
\* x.toString(radix) for an integer x >= 0, as a sequence of digit values.
ToStringRadix(x, radix) ==
    IF x < radix THEN <<x>>
    ELSE ToStringRadix(x \div radix, radix) \o <<x % radix>>

RECURSIVE ParseIntRadix(_, _)
\* parseInt(s, radix) of a non-empty digit string.
ParseIntRadix(s, radix) ==
    IF Len(s) = 0 THEN 0
    ELSE ParseIntRadix(SubSeq(s, 1, Len(s) - 1), radix) * radix + s[Len(s)]

\* s.match(/(.{1,n})/g) for a non-empty s: greedy chunks of n, the last shorter.
MatchChunks(s, n) ==
    [k \in 1..((Len(s) + n - 1) \div n) |->
        SubSeq(s, (k - 1) * n + 1, IF k * n > Len(s) THEN Len(s) ELSE k * n)]

RECURSIVE Concat(_)
\* parts.join('')
Concat(parts) ==
    IF Len(parts) = 0 THEN <<>>
    ELSE IF Len(parts) = 1 THEN parts[1]
    ELSE LET half == Len(parts) \div 2
         IN  Concat(SubSeq(parts, 1, half))
                \o Concat(SubSeq(parts, half + 1, Len(parts)))

RECURSIVE Join(_, _)
\* parts.join(sep)
Join(parts, sep) ==
    IF Len(parts) = 0 THEN <<>>
    ELSE IF Len(parts) = 1 THEN parts[1]
    ELSE LET half == Len(parts) \div 2
         IN  Join(SubSeq(parts, 1, half), sep) \o <<sep>>
                \o Join(SubSeq(parts, half + 1, Len(parts)), sep)

\* s.split(sep): the pieces between the separators, always at least one
\* piece; ''.split(' ') is [''].
Split(s, sep) ==
    LET seps == {i \in 1..Len(s) : s[i] = sep}
        \* the k-th separator; 0 before the text and Len(s) + 1 after it
        SepAt(k) ==
            IF k = 0 THEN 0
            ELSE IF k > Cardinality(seps) THEN Len(s) + 1
            ELSE CHOOSE i \in seps : Cardinality({j \in seps : j < i}) = k - 1
    IN  [k \in 1..(Cardinality(seps) + 1) |->
            SubSeq(s, SepAt(k - 1) + 1, SepAt(k) - 1)]

\* array.indexOf(x): the first position holding x, or -1.
IndexOf(array, x) ==
    LET hits == {i \in DOMAIN array : array[i] = x}
    IN  IF hits = {} THEN -1
        ELSE CHOOSE i \in hits : \A j \in hits : i <= j

----------------------------------------------------------------------------
(* Program constants.                                                      *)

WordBits == 11
ByteBits == 8
ChecksumRatio == 32
GroupBits == 33
MinEntropyBytes == 16
MaxEntropyBytes == 32
EntropyStep == 4
WordMultiple == 3
DefaultStrength == 128
WordlistSize == 2048
DigestBytes == 32

----------------------------------------------------------------------------
(* The wordlists.  wordlists/english.js is not among the sources; it is an *)
(* ordered table of 2048 unique strings.  Word i is three letters, the     *)
(* base-16 digits of i over the letters a..p.                              *)

Letters == <<"a", "b", "c", "d", "e", "f", "g", "h",
             "i", "j", "k", "l", "m", "n", "o", "p">>

WordOf(i) == <<Letters[(i \div 256) + 1], Letters[((i \div 16) % 16) + 1],
               Letters[(i % 16) + 1]>>

ENGLISH_WORDLIST == [i \in 0..(WordlistSize - 1) |-> WordOf(i)]

\* Another list of the same words in another order, passed explicitly.
ALTERNATE_WORDLIST ==
    [i \in 0..(WordlistSize - 1) |-> WordOf((i * 5 + 3) % WordlistSize)]

WordlistArg(w) == IF w = 0 THEN ENGLISH_WORDLIST ELSE ALTERNATE_WORDLIST

----------------------------------------------------------------------------
(* SHA-256 (node's crypto module).  The digest is a deterministic function *)
(* of the input bytes, 32 bytes long; which function is fixed by hashKey,  *)
(* so that nothing checked depends on one particular digest.               *)



\* a * b modulo 65521 within 32-bit integers
MulMod(a, b) ==
    (((a * (b \div 256)) % 65521) * 256 + a * (b % 256)) % 65521

RECURSIVE MixPower(_)
\* 31^k modulo 65521
MixPower(k) ==
    IF k = 0 THEN 1
    ELSE LET half == MixPower(k \div 2)
         IN  MulMod(MulMod(half, half), IF k % 2 = 1 THEN 31 ELSE 1)

RECURSIVE MixRange(_, _, _)
\* What bytes lo..hi add to the mix.
MixRange(bytes, lo, hi) ==
    IF lo > hi THEN 0
    ELSE IF lo = hi THEN bytes[lo] + 7
    ELSE LET mid == (lo + hi) \div 2
         IN  (MulMod(MixRange(bytes, lo, mid), MixPower(hi - mid))
                + MixRange(bytes, mid + 1, hi)) % 65521

\* acc := (acc * 31 + byte + 7) mod 65521, byte after byte
MixBytes(bytes, acc) ==
    (MulMod(acc, MixPower(Len(bytes))) + MixRange(bytes, 1, Len(bytes))) % 65521

sha256(bytes) ==
    LET m == MixBytes(bytes, Len(bytes) + 1 + hashKey * 101)
    IN  [j \in 1..DigestBytes |-> (m * (2 * j + 1) + (m \div 256) + j * j * 17) % 256]

----------------------------------------------------------------------------
(* src/BtcAddresses.js lines 7-78: the mnemonic codec.                     *)

\* A slip: the bytes' digits are joined without padding each to 8.
bytesToBinary_NoPad(bytes) ==
    Concat([i \in 1..Len(bytes) |-> ToStringRadix(bytes[i], 2)])

bytesToBinary(bytes) ==
    Concat([i \in 1..Len(bytes) |-> PadStart(ToStringRadix(bytes[i], 2), ByteBits, 0)])

binaryToByte(binary) == ParseIntRadix(binary, 2)

\* A slip: one checksum bit per 16 entropy bits.
deriveChecksumBits_PerHalfWord(entropyBuffer) ==
    Slice(bytesToBinary(sha256(entropyBuffer)), 0,
          (Len(entropyBuffer) * ByteBits) \div 16)

\* ENT / 32 is a fraction when the length is no multiple of 4; slice truncates it.
deriveChecksumBits(entropyBuffer) ==
    LET ENT  == Len(entropyBuffer) * ByteBits
        CS   == ENT \div ChecksumRatio
        hash == sha256(entropyBuffer)
    IN  Slice(bytesToBinary(hash), 0, CS)

\* A slip: the test for a multiple of 4 bytes is left out.
EntropyLengthError_NoStep(len) ==
    IF len < MinEntropyBytes THEN "entropy too short"
    ELSE IF len > MaxEntropyBytes THEN "entropy too long"
    ELSE ""

\* Lines 23-31: the message of the TypeError thrown for a length, "" for none.
EntropyLengthError(len) ==
    IF len < MinEntropyBytes THEN "entropy too short"
    ELSE IF len > MaxEntropyBytes THEN "entropy too long"
    ELSE IF len % EntropyStep # 0 THEN "invalid entropy"
    ELSE ""

entropyToMnemonic(entropyArg, wordlist) ==
    IF EntropyLengthError(Len(entropyArg)) # ""
    THEN Threw("entropyToMnemonic", "TypeError", EntropyLengthError(Len(entropyArg)))
    ELSE
      LET entropyBits  == bytesToBinary(entropyArg)
          checksumBits == deriveChecksumBits(entropyArg)
          bits         == entropyBits \o checksumBits
          chunks       == MatchChunks(bits, WordBits)
          words        == [k \in 1..Len(chunks) |-> wordlist[binaryToByte(chunks[k])]]
      IN  Returned(Join(words, " "))

\* A slip: the split falls after the last whole group of 33 bits.
DividerIndex_WholeGroups(bits) == (Len(bits) \div GroupBits) * GroupBits

\* Line 69: Math.floor(bits.length / 33) * 32
DividerIndex(bits) == (Len(bits) \div GroupBits) * ChecksumRatio

mnemonicToEntropy(mnemonic, wordlist) ==
    LET words == Split(mnemonic, " ") IN
    IF Len(words) % WordMultiple # 0
    THEN Threw("mnemonicToEntropy", "Error", "invalid mnemonic")
    ELSE
      LET index == [k \in 1..Len(words) |-> IndexOf(wordlist, words[k])] IN
      IF \E k \in 1..Len(words) : index[k] = -1
      THEN Threw("mnemonicToEntropy", "Error", "invalid mnemonic")
      ELSE
        LET bits == Concat([k \in 1..Len(words) |->
                              PadStart(ToStringRadix(index[k], 2), WordBits, 0)])
            dividerIndex == DividerIndex(bits)
            entropyBits  == Slice(bits, 0, dividerIndex)
            checksumBits == Slice(bits, dividerIndex, Len(bits))
        IN
        \* ''.match(...) is null, and null.map throws
        IF Len(entropyBits) = 0
        THEN Threw("mnemonicToEntropy", "TypeError", "null has no map")
        ELSE
          LET chunks == MatchChunks(entropyBits, ByteBits)
              bytes  == [k \in 1..Len(chunks) |-> binaryToByte(chunks[k])]
              newChecksum == deriveChecksumBits(bytes)
          IN  IF newChecksum # checksumBits
              THEN Threw("mnemonicToEntropy", "Error", "invalid checksum")
              ELSE Returned(bytes)

\* A slip: only the "invalid mnemonic" failure is caught.
validateMnemonic_CatchSome(mnemonic, wordlist) ==
    LET r == mnemonicToEntropy(mnemonic, wordlist) IN
    IF r.threw /\ r.err.message = "invalid mnemonic" THEN Returned(FALSE)
    ELSE IF r.threw THEN r
    ELSE Returned(TRUE)

\* try { mnemonicToEntropy(...) } catch (e) { return false } return true
validateMnemonic(mnemonic, wordlist) ==
    IF mnemonicToEntropy(mnemonic, wordlist).threw
    THEN Returned(FALSE) ELSE Returned(TRUE)

\* crypto.randomBytes(strength / 8) returns any bytes of that length: the
\* bytes drawn are the argument `random`.  Strengths are never negative here.
generateMnemonic(strengthArg, random, wordlist) ==
    IF strengthArg % ChecksumRatio # 0
    THEN Threw("generateMnemonic", "TypeError", "invalid entropy")
    ELSE entropyToMnemonic(random, wordlist)

----------------------------------------------------------------------------
(* BigInt arithmetic of the JavaScript runtime, on base-16 digit sequences *)
(* (most significant first, 0n is <<>>).  JS numbers above 2^31 - 1, the   *)
(* hardened indices, are written the same way.                             *)

\* The digits without leading zeros.
StripZeros(digits) ==
    LET nonzero == {i \in 1..Len(digits) : digits[i] # 0}
    IN  IF nonzero = {} THEN <<>>
        ELSE LET first == CHOOSE i \in nonzero : \A j \in nonzero : i <= j
             IN  [k \in 1..(Len(digits) - first + 1) |-> digits[first + k - 1]]

\* BigInt('0x' + hex) for a non-empty hex string; '0x' alone is a SyntaxError.
BigIntFromHex(hex) == StripZeros(hex)

\* num.toString(16)
BigToHex(num) == IF num = <<>> THEN <<0>> ELSE num

\* buffer.toString('hex')
BufferToHex(buffer) ==
    [k \in 1..(2 * Len(buffer)) |->
        IF k % 2 = 1 THEN buffer[(k + 1) \div 2] \div 16
                     ELSE buffer[k \div 2] % 16]

\* Buffer.from(hex, 'hex'): one byte per pair of digits, an odd digit dropped.
HexToBuffer(hex) ==
    [k \in 1..(Len(hex) \div 2) |-> hex[2 * k - 1] * 16 + hex[2 * k]]

\* a < b
BigLess(a, b) ==
    \/ Len(a) < Len(b)
    \/ /\ Len(a) = Len(b)
       /\ \E i \in 1..Len(a) : a[i] < b[i] /\ \A j \in 1..(i - 1) : a[j] = b[j]

\* The carry into place i of a + b (equal lengths): some lower place
\* overflows and every place in between passes the carry on.
CarryInto(a, b, i) ==
    IF \E j \in (i + 1)..Len(a) :
          /\ a[j] + b[j] >= 16
          /\ \A k \in (i + 1)..(j - 1) : a[k] + b[k] = 15
    THEN 1 ELSE 0

\* a + b
BigAdd(a, b) ==
    LET len == (IF Len(a) > Len(b) THEN Len(a) ELSE Len(b)) + 1
        x   == PadStart(a, len, 0)
        y   == PadStart(b, len, 0)
    IN  StripZeros([i \in 1..len |-> (x[i] + y[i] + CarryInto(x, y, i)) % 16])

\* The borrow from place i of a - b (equal lengths): some lower place falls
\* short and every place in between passes the borrow on.
BorrowFrom(a, b, i) ==
    IF \E j \in (i + 1)..Len(a) :
          /\ a[j] < b[j]
          /\ \A k \in (i + 1)..(j - 1) : a[k] = b[k]
    THEN 1 ELSE 0

\* a - b for a >= b
BigSub(a, b) ==
    LET y == PadStart(b, Len(a), 0)
    IN  StripZeros([i \in 1..Len(a) |->
                       (a[i] - y[i] - BorrowFrom(a, y, i) + 16) % 16])

RECURSIVE BigMod(_, _)
\* a % n for n > 0
BigMod(a, n) == IF BigLess(a, n) THEN a ELSE BigMod(BigSub(a, n), n)

RECURSIVE PowMod(_, _)
\* 16^e modulo a small d
PowMod(e, d) ==
    IF e = 0 THEN 1 % d
    ELSE LET half == PowMod(e \div 2, d)
         IN  (half * half * (IF e % 2 = 1 THEN 16 ELSE 1)) % d

RECURSIVE ModRange(_, _, _, _)
\* The number written by digits lo..hi of a, modulo a small d.
ModRange(a, d, lo, hi) ==
    IF lo > hi THEN 0
    ELSE IF lo = hi THEN a[lo] % d
    ELSE LET mid == (lo + hi) \div 2
         IN  (ModRange(a, d, lo, mid) * PowMod(hi - mid, d)
                + ModRange(a, d, mid + 1, hi)) % d

\* Long division by a small d: the quotient digit at place i.
QuotientDigit(a, d, i) == (ModRange(a, d, 1, i - 1) * 16 + a[i]) \div d

\* a / d for a small number d (BigInt division rounds down)
BigDivSmall(a, d) == StripZeros([i \in 1..Len(a) |-> QuotientDigit(a, d, i)])

\* Number(a % d) for a small number d
BigModSmall(a, d) == ModRange(a, d, 1, Len(a))

----------------------------------------------------------------------------
(* src/BtcAddresses.js lines 85-153: BIP32 private-key derivation.         *)

\* Line 85: the order of the secp256k1 group.
N == <<15, 15, 15, 15, 15, 15, 15, 15, 15, 15, 15, 15, 15, 15, 15, 15,
       15, 15, 15, 15, 15, 15, 15, 15, 15, 15, 15, 15, 15, 15, 15, 14,
       11, 10, 10, 14, 13, 12, 14, 6, 10, 15, 4, 8, 10, 0, 3, 11,
       11, 15, 13, 2, 5, 14, 8, 12, 13, 0, 3, 6, 4, 1, 4, 1>>

KeyBytes == 32
KeyHexDigits == 64
IndexBytes == 4

\* Line 115: ilNum === 0n || ilNum >= N
OutOfRange(num) == num = <<>> \/ ~BigLess(num, N)

uintToNum(uint32be) == BigIntFromHex(BufferToHex(uint32be))

\* A slip: the hex digits are not padded to 64.
numTo32byteUint_NoPad(num) == HexToBuffer(BigToHex(num))

numTo32byteUint(num) == HexToBuffer(PadStart(BigToHex(num), KeyHexDigits, 0))

\* Buffer.alloc(4).writeUInt32LE(i, 0): the four bytes, least significant first.
uint32leBuffer(i) ==
    LET be == HexToBuffer(PadStart(BigToHex(i), 2 * IndexBytes, 0))
    IN  [k \in 1..IndexBytes |-> be[IndexBytes + 1 - k]]

\* crypto.createECDH('secp256k1'): setPrivateKey refuses a scalar outside
\* [1, N-1]; the compressed point is 33 bytes, a parity byte and x.  The point
\* is a fixed function of the scalar; which one does not matter here.
getCompressedPubkey(privKey) ==
    IF Len(privKey) = 0 \/ OutOfRange(uintToNum(privKey))
    THEN Threw("getCompressedPubkey", "Error",
               "Private key is not valid for specified curve.")
    ELSE Returned(<<2 + (privKey[Len(privKey)] % 2)>>
                  \o [k \in 1..KeyBytes |->
                        (privKey[((k - 1) % Len(privKey)) + 1] * 7 + k * 13 + 1) % 256])

\* HMAC-SHA512 is the runtime's; its 64-byte digest is the argument I.
seedToMaster(seedArg, I) ==
    LET ilNum == uintToNum(Slice(I, 0, KeyBytes)) IN
    IF OutOfRange(ilNum)
    THEN Threw("seedToMaster", "Error", "Invalid master key")
    ELSE Returned([priv |-> numTo32byteUint(ilNum), chain |-> Slice(I, KeyBytes, Len(I))])

\* Lines 123-129: the bytes the HMAC is taken over.
ChildData(parent, index, hardened) ==
    IF hardened
    THEN Returned(<<0>> \o parent.priv \o uint32leBuffer(index))
    ELSE LET pub == getCompressedPubkey(parent.priv) IN
         IF pub.threw THEN pub ELSE Returned(pub.value \o uint32leBuffer(index))

\* Lines 130-142: the child key from the digest I of the HMAC.
ChildFromDigest(parent, I) ==
    LET IL == Slice(I, 0, KeyBytes)
        IR == Slice(I, KeyBytes, Len(I))
        ilNum == uintToNum(IL)
    IN  IF ~BigLess(ilNum, N)
        THEN Threw("deriveChild", "Error", "Invalid child key")
        ELSE LET childNum == BigMod(BigAdd(uintToNum(parent.priv), ilNum), N) IN
             IF childNum = <<>>
             THEN Threw("deriveChild", "Error", "Invalid child key")
             ELSE Returned([priv |-> numTo32byteUint(childNum), chain |-> IR])

deriveChild(parent, index, hardened, I) ==
    LET data == ChildData(parent, index, hardened) IN
    IF data.threw THEN data ELSE ChildFromDigest(parent, I)

\* A slip: the first segment is 44 without the hardened offset.
indices_Plain44 ==
    <<<<2, 12>>, <<8, 0, 0, 0, 0, 0, 0, 0>>, <<8, 0, 0, 0, 0, 0, 0, 0>>, <<>>, <<>>>>

\* Line 146: [2147483692, 2147483648, 2147483648, 0, 0], in hex 8000002c,
\* 80000000, 80000000, 0, 0.
indices ==
    <<<<8, 0, 0, 0, 0, 0, 2, 12>>, <<8, 0, 0, 0, 0, 0, 0, 0>>,
      <<8, 0, 0, 0, 0, 0, 0, 0>>, <<>>, <<>>>>

\* Line 147
hardeneds == <<TRUE, TRUE, TRUE, FALSE, FALSE>>

\* Line 256: the path the address handler passes; derivePath does not read it.
SystemPath == "m/44'/0'/0'/0/0"

----------------------------------------------------------------------------
(* src/BtcAddresses.js lines 154-215: the address encoder.                 *)

\* Line 166: the digits 1..9 are numbers there and become text when added
\* to the buffer.
base58 == <<"1", "2", "3", "4", "5", "6", "7", "8", "9", "A", "B", "C", "D", "E", "F",
            "G", "H", "J", "K", "L", "M", "N", "P", "Q", "R", "S", "T", "U", "V", "W",
            "X", "Y", "Z", "a", "b", "c", "d", "e", "f", "g", "h", "i", "j", "k", "m",
            "n", "o", "p", "q", "r", "s", "t", "u", "v", "w", "x", "y", "z">>

Fifty8 == 58

RECURSIVE DigitLoop(_, _)
\* Lines 180-197: while (num > 0) { prepend base58[num % 58]; num = num / 58 }
DigitLoop(num, buffer) ==
    IF num = <<>> THEN buffer
    ELSE LET remainder == BigModSmall(num, Fifty8)
             quotient  == BigDivSmall(num, Fifty8)
             longer    == <<base58[remainder + 1]>> \o buffer
         IN  DigitLoop(quotient, longer)

\* Line 208: hex_number.match(/^00/)
LeadingZeroByte(hex) == Len(hex) >= 2 /\ hex[1] = 0 /\ hex[2] = 0

RECURSIVE ZeroLoop(_, _)
\* Lines 208-213: while the hex starts with 00 { prepend '1'; drop two digits }
ZeroLoop(hex, buffer) ==
    IF LeadingZeroByte(hex)
    THEN LET shorter == SubSeq(hex, 3, Len(hex))
             longer  == <<"1">> \o buffer
         IN  ZeroLoop(shorter, longer)
    ELSE buffer

encode_b58(hex_number) ==
    IF hex_number = <<>>
    THEN Threw("encode_b58", "SyntaxError", "Cannot convert 0x to a BigInt")
    ELSE Returned(ZeroLoop(hex_number, DigitLoop(BigIntFromHex(hex_number), <<>>)))

\* SHA-256 and RIPEMD-160 are the runtime's: the 20-byte hash of the public
\* key and the 4-byte checksum are the arguments.
privateKeyToAddress(privKey, ripemd160Hash, checksum) ==
    LET pubKey == getCompressedPubkey(privKey) IN
    IF pubKey.threw THEN pubKey
    ELSE encode_b58(BufferToHex(<<0>> \o ripemd160Hash \o checksum))

----------------------------------------------------------------------------
(* Bounds of the model, and the inputs drawn within them.                  *)

MaxHashKey == 0
MaxPattern == 1

\* The words a last word is replaced by.
LastWords == {0, 1}

\* A byte string of a given length: pattern 0 is all zero.
PatternBytes(p, len) == [i \in 1..len |-> (p * 85 + p * 37 * (i - 1)) % 256]

EntropyLengths == {0, 4, 12, 15, 16, 17, 20, 24, 27, 28, 32, 33, 36}

EntropyInputs ==
    {PatternBytes(p, len) : p \in 0..MaxPattern, len \in EntropyLengths}

StrengthInputs == {0, 32, 64, 96, 100, 128, 160, 192, 224, 256, 288}

\* What crypto.randomBytes(size) may return.
RandomBytes(size) == {PatternBytes(p, size) : p \in 0..MaxPattern}

UnknownWords == {<<"z", "z", "z">>, <<"A", "a", "a">>, <<"a", "a">>, <<>>}

TestWordCounts == {1, 2, 3, 4, 6, 9, 12, 13, 27}

\* Texts of n words: the same word throughout, the last word varied.
WordTexts ==
    {Join([k \in 1..n |-> IF k = n THEN WordOf(last) ELSE WordOf(first)], " ") :
        n \in TestWordCounts, first \in {0, WordlistSize - 1},
        last \in LastWords}

\* Texts with a word no list holds, with a doubled or trailing space, or empty.
OddTexts ==
    {Join(<<WordOf(0), u, WordOf(1)>>, " ") : u \in UnknownWords}
    \cup {<<>>, <<" ">>, Join(<<WordOf(0), WordOf(0), WordOf(1), <<>>>>, " ")}

MnemonicInputs == WordTexts \cup OddTexts

\* What a caller may do with a mnemonic it was handed before passing it back:
\* nothing, change or drop the last word, add a word, or misspell the first.
Handed(m) ==
    LET words == Split(m, " ")
        n     == Len(words)
    IN  {m}
        \cup {Join([words EXCEPT ![n] = WordOf(k)], " ") : k \in LastWords}
        \cup {Join(SubSeq(words, 1, n - 1), " "),
              Join(Append(words, WordOf(0)), " "),
              Join([words EXCEPT ![1] = <<"z", "z", "z">>], " ")}

----------------------------------------------------------------------------
(* The codec as a state machine: the functions keep no state, so a state   *)
(* is the last call with its arguments and its outcome.                    *)

CodecIdle ==
    /\ op = "none" /\ strength = 0 /\ entropy = <<>> /\ text = <<>>
    /\ chained = FALSE /\ thrown = NoThrow /\ outBytes = <<>> /\ valid = FALSE

B58Idle == bop = "none" /\ payload = <<>> /\ b58 = Returned(<<>>)

NoKey == [priv |-> <<>>, chain |-> <<>>]

NoStep == [index |-> <<>>, hardened |-> FALSE]

NoResult == [priv |-> <<>>]

HDIdle ==
    /\ hpc = "idle" /\ seed = <<>> /\ path = "" /\ current = NoKey /\ loopI = 0
    /\ step = NoStep /\ parentKey = NoKey /\ lastI = <<>> /\ herr = NoThrow
    /\ ret = NoResult

InitCodec ==
    /\ hashKey \in 0..MaxHashKey
    /\ wl \in {0, 1}
    /\ CodecIdle /\ B58Idle /\ HDIdle

\* A produced mnemonic is at hand: the preceding encode call returned it.
Produced == op \in {"entropyToMnemonic", "generateMnemonic"} /\ thrown = NoThrow

EntropyToMnemonic(e) ==
    /\ op = "none"
    /\ LET r == entropyToMnemonic(e, WordlistArg(wl)) IN
         /\ op' = "entropyToMnemonic"
         /\ entropy' = e
         /\ text' = r.value
         /\ thrown' = r.err
    /\ UNCHANGED <<hashKey, wl, strength, chained, outBytes, valid>>

GenerateMnemonic(s) ==
    /\ op = "none"
    /\ \E random \in (IF s % ByteBits = 0
                      THEN RandomBytes(s \div ByteBits) ELSE {<<>>}) :
         LET r == generateMnemonic(s, random, WordlistArg(wl)) IN
           /\ op' = "generateMnemonic"
           /\ strength' = s
           /\ entropy' = (IF r.err.site = "entropyToMnemonic" \/ ~r.threw
                          THEN random ELSE <<>>)
           /\ text' = r.value
           /\ thrown' = r.err
    /\ UNCHANGED <<hashKey, wl, chained, outBytes, valid>>

MnemonicToEntropy(m, fromEncode) ==
    /\ LET r == mnemonicToEntropy(m, WordlistArg(wl)) IN
         /\ op' = "mnemonicToEntropy"
         /\ text' = m
         /\ chained' = fromEncode
         /\ thrown' = r.err
         /\ outBytes' = r.value
    /\ UNCHANGED <<hashKey, wl, strength, entropy, valid>>

ValidateMnemonic(m, fromEncode) ==
    /\ LET r == validateMnemonic(m, WordlistArg(wl)) IN
         /\ op' = "validateMnemonic"
         /\ text' = m
         /\ chained' = fromEncode
         /\ thrown' = r.err
         /\ valid' = (~r.threw /\ r.value = TRUE)
    /\ UNCHANGED <<hashKey, wl, strength, entropy, outBytes>>

\* The outcome was delivered; nothing is kept between calls.
CodecReturn ==
    /\ op # "none"
    /\ op' = "none" /\ strength' = 0 /\ entropy' = <<>> /\ text' = <<>>
    /\ chained' = FALSE /\ thrown' = NoThrow /\ outBytes' = <<>> /\ valid' = FALSE
    /\ UNCHANGED <<hashKey, wl>>

\* A call on arguments of the caller's own.
CallEntropyToMnemonic ==
    /\ \E e \in EntropyInputs : EntropyToMnemonic(e)
    /\ UNCHANGED <<b58Vars, hdVars>>

CallGenerateMnemonic ==
    /\ \E s \in StrengthInputs : GenerateMnemonic(s)
    /\ UNCHANGED <<b58Vars, hdVars>>

CallMnemonicToEntropy ==
    /\ op = "none"
    /\ \E m \in MnemonicInputs : MnemonicToEntropy(m, FALSE)
    /\ UNCHANGED <<b58Vars, hdVars>>

CallValidateMnemonic ==
    /\ op = "none"
    /\ \E m \in MnemonicInputs : ValidateMnemonic(m, FALSE)
    /\ UNCHANGED <<b58Vars, hdVars>>

\* A call on the mnemonic the preceding encode call produced.
DecodeProduced ==
    /\ Produced
    /\ MnemonicToEntropy(text, TRUE)
    /\ UNCHANGED <<b58Vars, hdVars>>

ValidateProduced ==
    /\ Produced
    /\ ValidateMnemonic(text, TRUE)
    /\ UNCHANGED <<b58Vars, hdVars>>

\* A call on the produced mnemonic after the caller altered it.
DecodeAltered ==
    /\ Produced
    /\ \E m \in Handed(text) \ {text} : MnemonicToEntropy(m, FALSE)
    /\ UNCHANGED <<b58Vars, hdVars>>

ValidateAltered ==
    /\ Produced
    /\ \E m \in Handed(text) \ {text} : ValidateMnemonic(m, FALSE)
    /\ UNCHANGED <<b58Vars, hdVars>>

CodecDone ==
    /\ CodecReturn
    /\ UNCHANGED <<b58Vars, hdVars>>

NextCodec ==
    \/ CallEntropyToMnemonic
    \/ CallGenerateMnemonic
    \/ CallMnemonicToEntropy
    \/ CallValidateMnemonic
    \/ DecodeProduced
    \/ ValidateProduced
    \/ DecodeAltered
    \/ ValidateAltered
    \/ CodecDone

SpecCodec == InitCodec /\ [][NextCodec]_vars

----------------------------------------------------------------------------
(* What the codec is to compute, stated from the bit layout alone and      *)
(* without the string operations the code goes through.                    *)

ValidEntropyLengths == {16, 20, 24, 28, 32}
ValidStrengths == {128, 160, 192, 224, 256}
ValidWordCounts == {12, 15, 18, 21, 24}

\* Bit n (from 1, most significant first) of a sequence of w-bit numbers.
BitAt(numbers, w, n) ==
    (numbers[((n - 1) \div w) + 1] \div (2 ^ (w - 1 - ((n - 1) % w)))) % 2

BitsOfNumbers(numbers, w) == [n \in 1..(w * Len(numbers)) |-> BitAt(numbers, w, n)]

RECURSIVE ValueOfBits(_)
ValueOfBits(bits) ==
    IF bits = <<>> THEN 0
    ELSE 2 * ValueOfBits(SubSeq(bits, 1, Len(bits) - 1)) + bits[Len(bits)]

\* The numbers read off a bit string in groups of w bits.
NumbersOfBits(bits, w) ==
    [k \in 1..(Len(bits) \div w) |-> ValueOfBits(SubSeq(bits, (k - 1) * w + 1, k * w))]

\* The first Len * 8 / 32 bits of the digest of the bytes.
ChecksumOf(bytes) ==
    LET digestBits == BitsOfNumbers(sha256(bytes), 8)
    IN  [n \in 1..((Len(bytes) * 8) \div 32) |-> digestBits[n]]

\* The words that encode the bytes under a wordlist.
WordsOf(bytes, wordlist) ==
    LET places == NumbersOfBits(BitsOfNumbers(bytes, 8) \o ChecksumOf(bytes), 11)
    IN  [k \in 1..Len(places) |-> wordlist[places[k]]]

Listed(word, wordlist) == \E i \in DOMAIN wordlist : wordlist[i] = word

PlaceOf(word, wordlist) == CHOOSE i \in DOMAIN wordlist : wordlist[i] = word

\* The bits a sequence of listed words stands for.
BitsOfWords(words, wordlist) ==
    BitsOfNumbers([k \in 1..Len(words) |-> PlaceOf(words[k], wordlist)], 11)

WordsIn(t) == Split(t, " ")

AllListed(words, wordlist) == \A k \in 1..Len(words) : Listed(words[k], wordlist)

\* The entropy part and the trailing part of the words' bits.
EntropyPart(words, wordlist) ==
    LET bits == BitsOfWords(words, wordlist)
    IN  NumbersOfBits(SubSeq(bits, 1, (Len(bits) \div 33) * 32), 8)

TrailingPart(words, wordlist) ==
    LET bits == BitsOfWords(words, wordlist)
    IN  SubSeq(bits, (Len(bits) \div 33) * 32 + 1, Len(bits))

\* The mnemonic is well formed and its checksum agrees.
Accepted(t, wordlist) ==
    /\ Len(WordsIn(t)) % 3 = 0
    /\ AllListed(WordsIn(t), wordlist)
    /\ ChecksumOf(EntropyPart(WordsIn(t), wordlist)) = TrailingPart(WordsIn(t), wordlist)

----------------------------------------------------------------------------
(* The claims about the codec, checked under SpecCodec.                    *)

\* C1: round trip. For every entropy of 16, 20, 24, 28 or 32 bytes,
\* entropyToMnemonic succeeds, and mnemonicToEntropy applied to the mnemonic
\* it returned (same wordlist) succeeds and returns exactly those bytes.
C1_RoundTrip ==
    /\ (op = "entropyToMnemonic" /\ Len(entropy) \in ValidEntropyLengths)
          => thrown = NoThrow
    /\ (op = "mnemonicToEntropy" /\ chained /\ Len(entropy) \in ValidEntropyLengths)
          => (thrown = NoThrow /\ outBytes = entropy)

C1_Witness ==
    /\ op = "mnemonicToEntropy" /\ chained /\ wl = 1
    /\ Len(entropy) = 32 /\ entropy[2] # 0
    /\ outBytes = entropy

\* C2: for every strength in {128,160,192,224,256} and whatever bytes the
\* random source returns, generateMnemonic returns a mnemonic of
\* (s + s/32) / 11 words, and validateMnemonic returns true on it.
C2_GenerateValid ==
    /\ (op = "generateMnemonic" /\ strength \in ValidStrengths)
          => /\ thrown = NoThrow
             /\ Len(WordsIn(text)) = (strength + strength \div 32) \div 11
             /\ Len(WordsIn(text)) \in ValidWordCounts
    /\ (op = "validateMnemonic" /\ chained /\ strength \in ValidStrengths)
          => (thrown = NoThrow /\ valid)

C2_Witness ==
    /\ op = "validateMnemonic" /\ chained /\ strength = 256
    /\ Len(WordsIn(text)) = 24 /\ valid

\* C3: for every strength outside {128,160,192,224,256}, generateMnemonic
\* fails with its own invalid-strength error (the TypeError it throws itself),
\* never with another error, and returns no mnemonic.
C3_InvalidStrength ==
    (op = "generateMnemonic" /\ strength \notin ValidStrengths)
       => /\ thrown.site = "generateMnemonic"
          /\ thrown.message = "invalid entropy"
          /\ text = <<>>

\* C4: mnemonicToEntropy fails with "invalid mnemonic" when the word count
\* is no multiple of 3 or a word is not in the wordlist; otherwise it splits
\* the words' 11-bit indices at floor(bits/33)*32, fails with "invalid
\* checksum" exactly when the checksum of the entropy part differs from the
\* trailing bits, and else returns the entropy part.
C4_DecodeClassification ==
    op = "mnemonicToEntropy" =>
      LET words == WordsIn(text)
          list  == WordlistArg(wl)
      IN  IF Len(words) % 3 # 0 \/ ~AllListed(words, list)
          THEN thrown.message = "invalid mnemonic" /\ outBytes = <<>>
          ELSE IF ChecksumOf(EntropyPart(words, list)) # TrailingPart(words, list)
          THEN thrown.message = "invalid checksum" /\ outBytes = <<>>
          ELSE thrown = NoThrow /\ outBytes = EntropyPart(words, list)

C4_WitnessMismatch ==
    /\ op = "mnemonicToEntropy" /\ thrown.message = "invalid checksum"
    /\ Len(WordsIn(text)) = 12

C4_Witness ==
    /\ op = "mnemonicToEntropy" /\ thrown.message = "invalid mnemonic"
    /\ Len(WordsIn(text)) = 3 /\ ~AllListed(WordsIn(text), WordlistArg(wl))

\* C5: validateMnemonic never raises; it returns true exactly when the
\* mnemonic is one mnemonicToEntropy accepts (word count a multiple of 3,
\* every word listed, checksum agreeing) and false for every failure.
C5_ValidateTotal ==
    op = "validateMnemonic" =>
      /\ thrown = NoThrow
      /\ valid \in BOOLEAN
      /\ valid <=> Accepted(text, WordlistArg(wl))

C5_Witness ==
    /\ op = "validateMnemonic" /\ ~valid /\ thrown = NoThrow
    /\ Len(WordsIn(text)) = 12 /\ AllListed(WordsIn(text), WordlistArg(wl))

\* C6: entropyToMnemonic fails with "entropy too short" below 16 bytes, with
\* "entropy too long" above 32, with "invalid entropy" for a length between
\* that is no multiple of 4; for an accepted length L it returns
\* (L*8 + L*8/32)/11 words joined by single spaces, word k being the wordlist
\* entry at the k-th 11-bit group of the entropy bits followed by the first
\* L*8/32 bits of the digest.
C6_EncodeContract ==
    op = "entropyToMnemonic" =>
      LET L == Len(entropy) IN
      IF L < 16 THEN thrown.message = "entropy too short" /\ text = <<>>
      ELSE IF L > 32 THEN thrown.message = "entropy too long" /\ text = <<>>
      ELSE IF L % 4 # 0 THEN thrown.message = "invalid entropy" /\ text = <<>>
      ELSE /\ thrown = NoThrow
           /\ Len(WordsIn(text)) = (L * 8 + (L * 8) \div 32) \div 11
           /\ WordsIn(text) = WordsOf(entropy, WordlistArg(wl))
           /\ Len(text) = 4 * Len(WordsIn(text)) - 1

C6_Witness ==
    /\ op = "entropyToMnemonic" /\ thrown = NoThrow
    /\ Len(entropy) = 20 /\ Len(WordsIn(text)) = 15

C6_WitnessRejected ==
    op = "entropyToMnemonic" /\ Len(entropy) = 27 /\ thrown.message = "invalid entropy"

\* C10: every mnemonic the codec accepts has 12, 15, 18, 21 or 24 words and
\* decodes to 16, 20, 24, 28 or 32 bytes, from which entropyToMnemonic gives
\* the mnemonic back; none of 3, 6, 9 or 27 and more words is accepted.
C10_AcceptedWordCounts ==
    /\ (op = "mnemonicToEntropy" /\ thrown = NoThrow)
          => /\ Len(WordsIn(text)) \in ValidWordCounts
             /\ Len(outBytes) \in ValidEntropyLengths
             /\ entropyToMnemonic(outBytes, WordlistArg(wl)) = Returned(text)
    /\ (op = "validateMnemonic" /\ valid)
          => Len(WordsIn(text)) \in ValidWordCounts

----------------------------------------------------------------------------
(* The address encoder as a state machine, under SpecB58.                  *)

MaxB58Len == 3

ByteSamples == {0, 1, 57, 58, 255}

RECURSIVE ByteStrings(_)
\* Every string of at most n sample bytes.
ByteStrings(n) ==
    IF n = 0 THEN {<<>>}
    ELSE LET shorter == ByteStrings(n - 1)
         IN  shorter \cup {Append(b, x) : b \in shorter, x \in ByteSamples}

B58Inputs == ByteStrings(MaxB58Len)

\* Private scalars in range, and what the hashes of a public key may be.
ScalarSamples == {[k \in 1..KeyBytes |-> IF k = KeyBytes THEN 1 ELSE 0],
                  PatternBytes(1, KeyBytes)}

Hash160Samples ==
    {PatternBytes(p, 20) : p \in 0..MaxPattern}
    \cup {[k \in 1..20 |-> IF k <= 3 THEN 0 ELSE 200 + k]}

ChecksumSamples == {PatternBytes(p, 4) : p \in 0..MaxPattern}

InitB58 ==
    /\ hashKey = 0 /\ wl = 0
    /\ CodecIdle /\ B58Idle /\ HDIdle

EncodeB58(bytes) ==
    /\ bop = "none"
    /\ bop' = "encode_b58"
    /\ payload' = bytes
    /\ b58' = encode_b58(BufferToHex(bytes))

PrivateKeyToAddress(k, h, c) ==
    /\ bop = "none"
    /\ bop' = "privateKeyToAddress"
    /\ payload' = <<0>> \o h \o c
    /\ b58' = privateKeyToAddress(k, h, c)

CallEncodeB58 ==
    /\ \E bytes \in B58Inputs : EncodeB58(bytes)
    /\ UNCHANGED <<codecVars, hdVars>>

CallPrivateKeyToAddress ==
    /\ \E k \in ScalarSamples, h \in Hash160Samples, c \in ChecksumSamples :
          PrivateKeyToAddress(k, h, c)
    /\ UNCHANGED <<codecVars, hdVars>>

B58Done ==
    /\ bop # "none"
    /\ bop' = "none" /\ payload' = <<>> /\ b58' = Returned(<<>>)
    /\ UNCHANGED <<codecVars, hdVars>>

NextB58 ==
    \/ CallEncodeB58
    \/ CallPrivateKeyToAddress
    \/ B58Done

SpecB58 == InitB58 /\ [][NextB58]_vars

(* What Base58 is to produce, stated by decoding the text.                 *)

Alphabet ==
    <<"1", "2", "3", "4", "5", "6", "7", "8", "9", "A", "B", "C", "D", "E", "F",
      "G", "H", "J", "K", "L", "M", "N", "P", "Q", "R", "S", "T", "U", "V", "W",
      "X", "Y", "Z", "a", "b", "c", "d", "e", "f", "g", "h", "i", "j", "k", "m",
      "n", "o", "p", "q", "r", "s", "t", "u", "v", "w", "x", "y", "z">>

IsDigit58(c) == \E k \in 1..58 : Alphabet[k] = c

DigitValue(c) == (CHOOSE k \in 1..58 : Alphabet[k] = c) - 1

\* How many zero bytes the byte string starts with.
LeadingZeroBytes(bytes) ==
    Cardinality({i \in 1..Len(bytes) : \A j \in 1..i : bytes[j] = 0})

RECURSIVE PowerResidue(_, _, _)
\* base^e modulo d
PowerResidue(base, e, d) ==
    IF e = 0 THEN 1 % d
    ELSE LET half == PowerResidue(base, e \div 2, d)
         IN  (((half * half) % d) * (IF e % 2 = 1 THEN base % d ELSE 1)) % d

RECURSIVE Residue(_, _, _, _, _)
\* The number that places lo..hi of digits denote in the base, modulo d.
Residue(digits, base, d, lo, hi) ==
    IF lo > hi THEN 0
    ELSE IF lo = hi THEN digits[lo] % d
    ELSE LET mid == (lo + hi) \div 2
         IN  (Residue(digits, base, d, lo, mid) * PowerResidue(base, hi - mid, d)
                + Residue(digits, base, d, mid + 1, hi)) % d

\* Eighteen primes with a product above 2^278: two numbers below 2^278 are
\* equal exactly when they agree modulo each of the primes.
Moduli ==
    {46337, 46327, 46309, 46307, 46301, 46279, 46273, 46271, 46261,
     46237, 46229, 46219, 46199, 46187, 46183, 46181, 46171, 46153}

\* The base-58 digits and the bytes denote the same number.
SameNumber(chars, bytes) ==
    LET values == [i \in 1..Len(chars) |-> DigitValue(chars[i])]
    IN  \A d \in Moduli :
            Residue(values, 58, d, 1, Len(values)) =
            Residue(bytes, 256, d, 1, Len(bytes))

\* The text is z ones followed by the base-58 digits of the bytes' value.
Base58Of(bytes, outcome) ==
    /\ ~outcome.threw
    /\ LET z    == LeadingZeroBytes(bytes)
           r    == outcome.value
           body == SubSeq(r, z + 1, Len(r))
       IN  /\ Len(r) >= z
           /\ \A i \in 1..z : r[i] = "1"
           /\ \A i \in 1..Len(body) : IsDigit58(body[i])
           /\ body # <<>> => body[1] # "1"
           /\ SameNumber(body, bytes)
           /\ (z = Len(bytes)) => (Len(r) = Len(bytes))

\* C7: Base58 keeps leading zero bytes: for every byte string with z leading
\* zero bytes and value v the text is z characters '1' followed by the
\* base-58 digits of v (none when v = 0); an all-zero input of length k >= 0
\* gives exactly k characters '1'.
C7_Base58LeadingZeros == bop # "none" => Base58Of(payload, b58)

\* The same for the inputs that hold at least one byte.
Base58NonEmpty == (bop # "none" /\ payload # <<>>) => Base58Of(payload, b58)

----------------------------------------------------------------------------
(* The derivation chain as a state machine, under SpecHD.                  *)

MaxDepth == 2

SeedBytes == 64

\* The order as 32 bytes, and digests' left halves around the edges of the
\* valid range.
OrderBytes == [k \in 1..KeyBytes |-> N[2 * k - 1] * 16 + N[2 * k]]

Zero32 == [k \in 1..KeyBytes |-> 0]
One32 == [k \in 1..KeyBytes |-> IF k = KeyBytes THEN 1 ELSE 0]
OrderMinus1 == [OrderBytes EXCEPT ![KeyBytes] = @ - 1]
OrderPlus1 == [OrderBytes EXCEPT ![KeyBytes] = @ + 1]
Max32 == [k \in 1..KeyBytes |-> 255]

LeftSamples ==
    {Zero32, One32, OrderMinus1, OrderBytes, OrderPlus1, Max32,
     PatternBytes(1, KeyBytes)}

RightSamples == {PatternBytes(1, KeyBytes), PatternBytes(2, KeyBytes)}

\* What HMAC-SHA512 may return.
HmacOutputs == {il \o ir : il \in LeftSamples, ir \in RightSamples}

SeedInputs == {PatternBytes(0, SeedBytes), PatternBytes(1, SeedBytes)}

\* The path the address handler passes, and another one.
PathInputs == {SystemPath, "m/0'"}

IndexInputs == {<<>>, <<8, 0, 0, 0, 0, 0, 0, 1>>}

InitHD ==
    /\ hashKey = 0 /\ wl = 0
    /\ CodecIdle /\ B58Idle /\ HDIdle

\* A caller calls seedToMaster.
SeedToMaster(s, I) ==
    /\ hpc = "idle"
    /\ seed' = s
    /\ lastI' = I
    /\ LET r == seedToMaster(s, I) IN
         IF r.threw
         THEN hpc' = "failed" /\ herr' = r.err /\ UNCHANGED current
         ELSE hpc' = "held" /\ current' = r.value /\ UNCHANGED herr
    /\ UNCHANGED <<path, loopI, step, parentKey, ret>>

\* A caller calls deriveChild on the key it holds.
DeriveChild(index, hardened, I) ==
    /\ hpc = "held"
    /\ loopI < MaxDepth
    /\ step' = [index |-> index, hardened |-> hardened]
    /\ parentKey' = current
    /\ lastI' = I
    /\ LET r == deriveChild(current, index, hardened, I) IN
         IF r.threw
         THEN hpc' = "failed" /\ herr' = r.err /\ UNCHANGED <<current, loopI>>
         ELSE current' = r.value /\ loopI' = loopI + 1 /\ UNCHANGED <<hpc, herr>>
    /\ UNCHANGED <<seed, path, ret>>

\* derivePath, line 148: current = seedToMaster(seed)
DerivePathEnter(s, p, I) ==
    /\ hpc = "idle"
    /\ seed' = s
    /\ path' = p
    /\ lastI' = I
    /\ LET r == seedToMaster(s, I) IN
         IF r.threw
         THEN hpc' = "failed" /\ herr' = r.err /\ UNCHANGED current
         ELSE hpc' = "loop" /\ current' = r.value /\ UNCHANGED herr
    /\ UNCHANGED <<loopI, step, parentKey, ret>>

\* derivePath, lines 149-151: one turn of the loop
DerivePathLoop(I) ==
    /\ hpc = "loop"
    /\ loopI < Len(indices)
    /\ step' = [index |-> indices[loopI + 1], hardened |-> hardeneds[loopI + 1]]
    /\ parentKey' = current
    /\ lastI' = I
    /\ LET r == deriveChild(current, indices[loopI + 1], hardeneds[loopI + 1], I) IN
         IF r.threw
         THEN hpc' = "failed" /\ herr' = r.err /\ UNCHANGED <<current, loopI>>
         ELSE current' = r.value /\ loopI' = loopI + 1 /\ UNCHANGED <<hpc, herr>>
    /\ UNCHANGED <<seed, path, ret>>

\* derivePath, line 152: return current.priv
DerivePathReturn ==
    /\ hpc = "loop"
    /\ ~(loopI < Len(indices))
    /\ hpc' = "done"
    /\ ret' = [priv |-> current.priv]
    /\ UNCHANGED <<seed, path, current, loopI, step, parentKey, lastI, herr>>

CallSeedToMaster ==
    /\ \E s \in SeedInputs, I \in HmacOutputs : SeedToMaster(s, I)
    /\ UNCHANGED <<codecVars, b58Vars>>

CallDeriveChild ==
    /\ \E index \in IndexInputs, hardened \in BOOLEAN, I \in HmacOutputs :
          DeriveChild(index, hardened, I)
    /\ UNCHANGED <<codecVars, b58Vars>>

CallDerivePath ==
    /\ \E s \in SeedInputs, p \in PathInputs, I \in HmacOutputs :
          DerivePathEnter(s, p, I)
    /\ UNCHANGED <<codecVars, b58Vars>>

StepDerivePath ==
    /\ \E I \in HmacOutputs : DerivePathLoop(I)
    /\ UNCHANGED <<codecVars, b58Vars>>

ReturnDerivePath ==
    /\ DerivePathReturn
    /\ UNCHANGED <<codecVars, b58Vars>>

NextHD ==
    \/ CallSeedToMaster
    \/ CallDeriveChild
    \/ CallDerivePath
    \/ StepDerivePath
    \/ ReturnDerivePath

SpecHD == InitHD /\ [][NextHD]_vars

----------------------------------------------------------------------------
(* The derivation contract, stated on the bytes of the keys and digests.   *)

\* a < b for byte strings of one length read as big-endian numbers.
BytesLess(a, b) ==
    \E i \in 1..Len(a) : a[i] < b[i] /\ \A j \in 1..(i - 1) : a[j] = b[j]

\* The 32 bytes denote a scalar in [1, N-1].
ScalarInRange(bytes) == bytes # Zero32 /\ BytesLess(bytes, OrderBytes)

\* An ExtendedKey: a scalar in range on exactly 32 bytes, a 32-byte chain code.
WellFormedKey(key) ==
    /\ Len(key.priv) = 32
    /\ \A i \in 1..Len(key.priv) : key.priv[i] \in 0..255
    /\ ScalarInRange(key.priv)
    /\ Len(key.chain) = 32

\* The carry into byte i of x + y (one length): a lower byte overflows and
\* every byte in between passes the carry on.
ByteCarry(x, y, i) ==
    IF \E j \in (i + 1)..Len(x) :
          /\ x[j] + y[j] >= 256
          /\ \A k \in (i + 1)..(j - 1) : x[k] + y[k] = 255
    THEN 1 ELSE 0

\* x + y for 32-byte numbers, on 33 bytes.
WideSum(x, y) ==
    LET wx == <<0>> \o x
        wy == <<0>> \o y
    IN  [i \in 1..33 |-> (wx[i] + wy[i] + ByteCarry(wx, wy, i)) % 256]

\* x + y = z + q * N for the numbers the byte strings denote, q 0 or 1.
SumIs(x, y, z, q) ==
    WideSum(x, y) = (IF q = 0 THEN <<0>> \o z ELSE WideSum(z, OrderBytes))

\* (x + y) mod N = 0, for x in [1, N-1] and y below N.
SumIsZeroModN(x, y) == SumIs(x, y, Zero32, 1)

\* z = (x + y) mod N, for x and y below N.
IsSumModN(x, y, z) ==
    /\ BytesLess(z, OrderBytes)
    /\ SumIs(x, y, z, 0) \/ SumIs(x, y, z, 1)

\* IL and IR of the digest of the last call.
LeftOf(I) == SubSeq(I, 1, 32)
RightOf(I) == SubSeq(I, 33, 64)

\* The last call was seedToMaster / deriveChild, and it returned / threw.
MasterReturned == hpc \in {"held", "loop"} /\ parentKey = NoKey
MasterFailed == hpc = "failed" /\ parentKey = NoKey
ChildReturned == hpc \in {"held", "loop", "done"} /\ parentKey # NoKey
ChildFailed == hpc = "failed" /\ parentKey # NoKey

InvalidMasterKey ==
    [site |-> "seedToMaster", name |-> "Error", message |-> "Invalid master key"]

InvalidChildKey ==
    [site |-> "deriveChild", name |-> "Error", message |-> "Invalid child key"]

\* C8: after seedToMaster and any deriveChild steps every key returned has
\* a private scalar in [1, N-1] on exactly 32 big-endian bytes and a 32-byte
\* chain code; seedToMaster fails with 'Invalid master key' exactly when IL
\* is 0 or >= N; deriveChild fails with 'Invalid child key' exactly when
\* IL >= N or (parent + IL) mod N = 0, and otherwise returns the scalar
\* (parent + IL) mod N with chain code IR.
C8_ScalarRange ==
    /\ hpc \in {"held", "loop", "done"} => WellFormedKey(current)
    /\ parentKey # NoKey => WellFormedKey(parentKey)
    /\ MasterReturned =>
          /\ ScalarInRange(LeftOf(lastI))
          /\ current = [priv |-> LeftOf(lastI), chain |-> RightOf(lastI)]
    /\ MasterFailed =>
          /\ ~ScalarInRange(LeftOf(lastI))
          /\ herr = InvalidMasterKey
    /\ ChildReturned =>
          /\ BytesLess(LeftOf(lastI), OrderBytes)
          /\ ~SumIsZeroModN(parentKey.priv, LeftOf(lastI))
          /\ IsSumModN(parentKey.priv, LeftOf(lastI), current.priv)
          /\ current.chain = RightOf(lastI)
    /\ ChildFailed =>
          /\ \/ ~BytesLess(LeftOf(lastI), OrderBytes)
             \/ SumIsZeroModN(parentKey.priv, LeftOf(lastI))
          /\ herr = InvalidChildKey

\* A second deriveChild step returned a scalar that wrapped around N.
C8_Witness ==
    /\ ChildReturned /\ hpc = "held" /\ loopI = 2
    /\ SumIs(parentKey.priv, LeftOf(lastI), current.priv, 1)

\* deriveChild refused a child scalar of zero.
C8_WitnessZeroChild ==
    /\ ChildFailed
    /\ BytesLess(LeftOf(lastI), OrderBytes)
    /\ SumIsZeroModN(parentKey.priv, LeftOf(lastI))

\* seedToMaster refused a left half of N exactly.
C8_WitnessMasterRefused == MasterFailed /\ LeftOf(lastI) = OrderBytes

----------------------------------------------------------------------------
(* derivePath.                                                             *)

\* 44', 0', 0', 0, 0: the indices 2147483692, 2147483648, 2147483648, 0, 0
\* in hex digits, with their hardened flags.
ExpectedSteps ==
    <<[index |-> <<8, 0, 0, 0, 0, 0, 2, 12>>, hardened |-> TRUE],
      [index |-> <<8, 0, 0, 0, 0, 0, 0, 0>>, hardened |-> TRUE],
      [index |-> <<8, 0, 0, 0, 0, 0, 0, 0>>, hardened |-> TRUE],
      [index |-> <<>>, hardened |-> FALSE],
      [index |-> <<>>, hardened |-> FALSE]>>

\* A call of derivePath is under way or over.
InPath == path # ""

\* C9 as stated: derivePath folds deriveChild over the path, five steps for
\* the system's path, and the result is the ExtendedKey of the fifth step.
C9_ResultIsExtendedKey == (InPath /\ hpc = "done") => ret = current

\* Where a call of derivePath stands, whatever path it was given: the steps
\* taken are the first of the five fixed ones, in order, and the result is
\* the private scalar of the fifth step's key.
PathState ==
    InPath =>
        /\ hpc \in {"loop", "done", "failed"}
        /\ loopI \in 0..5
        /\ parentKey = NoKey => loopI = 0
        /\ parentKey # NoKey =>
              step = ExpectedSteps[IF hpc = "failed" THEN loopI + 1 ELSE loopI]
        /\ hpc = "done" =>
              /\ loopI = 5
              /\ ret = [priv |-> current.priv]
              /\ Len(ret.priv) = 32
        /\ hpc # "done" => ret = NoResult

\* What a call of derivePath does next: a step takes the key of the step
\* before as parent and either counts or fails; after a failure nothing
\* runs; the call returns after the fifth step only.
PathStep ==
    InPath =>
        /\ hpc \in {"failed", "done"} => UNCHANGED hdVars
        /\ (hpc = "loop" /\ hpc' # "done") =>
              /\ parentKey' = current
              /\ step' = ExpectedSteps[loopI + 1]
              /\ \/ hpc' = "loop" /\ loopI' = loopI + 1
                 \/ hpc' = "failed" /\ loopI' = loopI /\ current' = current
              /\ seed' = seed /\ path' = path
        /\ (hpc = "loop" /\ hpc' = "done") =>
              /\ loopI = 5
              /\ current' = current /\ parentKey' = parentKey

\* C9, amended: derivePath(seed, path) does not read path: it starts from
\* seedToMaster(seed) and applies deriveChild five times with indices
\* 2147483692, 2147483648, 2147483648, 0, 0 and hardened flags true, true,
\* true, false, false, each step on the key of the step before; a failure
\* ends the call at that step; otherwise the result is the 32-byte private
\* scalar of the fifth step's key, without its chain code.
C9_FixedFold == [](PathState) /\ [][PathStep]_vars

\* derivePath returned for the system's path.
C9_Witness ==
    /\ hpc = "done" /\ path = SystemPath /\ loopI = 5
    /\ ret.priv = current.priv /\ ret # current

\* derivePath returned for another path, after the same five steps.
C9_WitnessOtherPath == hpc = "done" /\ path # SystemPath /\ step = ExpectedSteps[5]

====
